---- MODULE Spec2Model ----
(***************************************************************************)
(* A model of the lexical scanner of src/src/compiler/lexer.rs and of the  *)
(* driver loop of src/src/compiler/compiler.rs.                            *)
(*                                                                         *)
(* A character is a one-character string, a line is a sequence of          *)
(* characters (Vec<char>), a file is a non-empty sequence of lines as      *)
(* BufRead::lines() delivers them (line terminators stripped).  Indices    *)
(* keep the 0-based values of the Rust code; Slice translates a Rust       *)
(* range a..b into SubSeq.                                                 *)
(***************************************************************************)
EXTENDS Integers, Sequences, FiniteSets, TLC

VARIABLES
    src,                 \* the whole file, as read by reader.lines()
    lines,               \* the lines iterator: the lines not yet taken
    current_line,        \* Lexer.current_line
    current_index,       \* Lexer.current_index (0-based)
    at_eol,              \* Lexer.at_eol
    current_line_number, \* Lexer.current_line_number
    pc,                  \* "idle": between calls; "scanning": inside get_token
    current_status,      \* get_token's local current_status
    start_index,         \* get_token's local start_index
    result,              \* the Token the last call returned
    tokens,              \* every Token returned so far (what compile prints)
    outcome,             \* "running", or the way the process ended
    call_pos,            \* cursor position when the running call began
    calls_after_eof,     \* number of calls made after EndOfFile was returned
    newlines_delivered,  \* history: how many times getc has returned '\n'
    lexemes              \* history: the lexemes of the tokens returned, joined

vars == <<src, lines, current_line, current_index, at_eol,
          current_line_number, pc, current_status, start_index,
          result, tokens, outcome, call_pos, calls_after_eof,
          newlines_delivered, lexemes>>

(***************************************************************************)
(* Character classes of the match arms of get_token.                       *)
(***************************************************************************)
Digits == {"0", "1", "2", "3", "4", "5", "6", "7", "8", "9"}

Letters ==
    {"a", "b", "c", "d", "e", "f", "g", "h", "i", "j", "k", "l", "m",
     "n", "o", "p", "q", "r", "s", "t", "u", "v", "w", "x", "y", "z",
     "A", "B", "C", "D", "E", "F", "G", "H", "I", "J", "K", "L", "M",
     "N", "O", "P", "Q", "R", "S", "T", "U", "V", "W", "X", "Y", "Z", "_"}

Blanks == {" ", "\t", "\r", "\n"}

DigitValue(ch) ==
    CASE ch = "0" -> 0 [] ch = "1" -> 1 [] ch = "2" -> 2 [] ch = "3" -> 3
      [] ch = "4" -> 4 [] ch = "5" -> 5 [] ch = "6" -> 6 [] ch = "7" -> 7
      [] ch = "8" -> 8 [] ch = "9" -> 9

(***************************************************************************)
(* The two tables, in source order.                                        *)
(***************************************************************************)
KEYWORD_ARRAY ==
    << << <<"v","a","r">>, "Var" >>,
       << <<"b","o","o","l","e","a","n">>, "Boolean" >>,
       << <<"i","n","t">>, "Int" >>,
       << <<"r","e","a","l">>, "Real" >>,
       << <<"s","t","r","i","n","g">>, "String" >>,
       << <<"f","u","n","c","t","i","o","n">>, "Function" >>,
       << <<"t","r","u","e">>, "True" >>,
       << <<"f","a","l","s","e">>, "False" >>,
       << <<"i","f">>, "If" >>,
       << <<"e","l","s","i","f">>, "Elsif" >>,
       << <<"e","l","s","e">>, "Else" >>,
       << <<"w","h","i","l","e">>, "While" >>,
       << <<"r","e","t","u","r","n">>, "Return" >> >>

OPERATOR_ARRAY ==
    << << <<"+">>, "Plus" >>,
       << <<"-">>, "Minus" >>,
       << <<"*">>, "Asterisk" >>,
       << <<"/">>, "Slash" >>,
       << <<"{">>, "LeftBrace" >>,
       << <<"}">>, "RightBrace" >>,
       << <<"(">>, "LeftParen" >>,
       << <<")">>, "RightParen" >>,
       << <<"=">>, "Equal" >>,
       << <<"!","=">>, "NotEqual" >>,
       << <<":","=">>, "Assignment" >>,
       << <<">">>, "GreaterThan" >>,
       << <<">","=">>, "GreaterEqual" >>,
       << <<"<">>, "LessThan" >>,
       << <<"<","=">>, "LessEqual" >>,
       << <<"&","&">>, "LogicalAnd" >>,
       << <<"|","|">>, "LogicalOr" >>,
       << <<"+","+">>, "Increment" >>,
       << <<"-","-">>, "Decrement" >>,
       << <<",">>, "Comma" >>,
       << <<";">>, "Semicolon" >> >>

(***************************************************************************)
(* Token and TokenType.  Every token type has the same record shape; the   *)
(* payload fields are empty for the kinds that carry none.                 *)
(***************************************************************************)
Plain(kind) == [kind |-> kind, text |-> <<>>, num |-> 0, scale |-> 0]

Identifier(name) == [kind |-> "Identifier", text |-> name, num |-> 0, scale |-> 0]

IntValue(value) == [kind |-> "IntValue", text |-> <<>>, num |-> value, scale |-> 0]

\* an f64 that is the decimal mant / 10^scale (exact within the bounds)
RealValue(mant, scale) == [kind |-> "RealValue", text |-> <<>>, num |-> mant, scale |-> scale]

StringValue(str) == [kind |-> "StringValue", text |-> str, num |-> 0, scale |-> 0]

EndOfFile == Plain("EndOfFile")

Token(token_type, line_number) == [token_type |-> token_type, line_number |-> line_number]

NoToken == Token(Plain("None"), 0)

(***************************************************************************)
(* Ways the process ends: exit(1) after a message, or a panic.             *)
(***************************************************************************)
LexicalErrors ==
    {"IllegalCharacter", "MalformedNumber", "NewlineInString",
     "InvalidEscape", "UnterminatedEscape"}

Panics == {"PanicNotANumber", "PanicNotOperator", "PanicUngetc", "PanicSliceIndex"}

I32Max == 2147483647

(***************************************************************************)
(* Pure helpers of the scanner.                                            *)
(***************************************************************************)
\* the Rust range line[a..b]; ok is FALSE where Rust panics
Slice(line, a, b) ==
    IF a <= b /\ b <= Len(line)
    THEN [ok |-> TRUE, chars |-> SubSeq(line, a + 1, b)]
    ELSE [ok |-> FALSE, chars |-> <<>>]

\* str::starts_with
StartsWith(full, prefix) ==
    /\ Len(prefix) <= Len(full)
    /\ SubSeq(full, 1, Len(prefix)) = prefix

\* the entry a linear scan of a table stops at: the least matching index
FirstOf(hits) == CHOOSE i \in hits : \A j \in hits : i <= j

\* variant: a prefix of a keyword spelling is taken for the keyword
is_keyword_Prefix(char_array) ==
    LET hits == {i \in 1..Len(KEYWORD_ARRAY) : StartsWith(KEYWORD_ARRAY[i][1], char_array)}
    IN IF hits = {} THEN [some |-> FALSE, kind |-> "None"]
       ELSE [some |-> TRUE, kind |-> KEYWORD_ARRAY[FirstOf(hits)][2]]

is_keyword(char_array) ==
    LET hits == {i \in 1..Len(KEYWORD_ARRAY) : KEYWORD_ARRAY[i][1] = char_array}
    IN IF hits = {} THEN [some |-> FALSE, kind |-> "None"]
       ELSE [some |-> TRUE, kind |-> KEYWORD_ARRAY[FirstOf(hits)][2]]

is_operator_start(ch) ==
    \E i \in 1..Len(OPERATOR_ARRAY) : StartsWith(OPERATOR_ARRAY[i][1], <<ch>>)

in_operator(char_array) ==
    \E i \in 1..Len(OPERATOR_ARRAY) : StartsWith(OPERATOR_ARRAY[i][1], char_array)

get_operator(char_array) ==
    LET hits == {i \in 1..Len(OPERATOR_ARRAY) : OPERATOR_ARRAY[i][1] = char_array}
    IN IF hits = {} THEN [some |-> FALSE, kind |-> "None"]
       ELSE [some |-> TRUE, kind |-> OPERATOR_ARRAY[FirstOf(hits)][2]]

\* str.parse::<i32>() on a run of digits: checked multiply-and-add
RECURSIVE ParseI32Acc(_, _)
ParseI32Acc(digits, acc) ==
    IF digits = <<>> THEN [ok |-> TRUE, value |-> acc]
    ELSE LET d == DigitValue(Head(digits))
         IN IF acc > (I32Max - d) \div 10
            THEN [ok |-> FALSE, value |-> 0]
            ELSE ParseI32Acc(Tail(digits), acc * 10 + d)

ParseI32(digits) ==
    IF digits = <<>> THEN [ok |-> FALSE, value |-> 0]
    ELSE ParseI32Acc(digits, 0)

\* str.parse::<f64>() on digits '.' digits, as the decimal mant / 10^scale
RECURSIVE StripZeros(_)
StripZeros(digits) ==
    IF digits # <<>> /\ digits[Len(digits)] = "0"
    THEN StripZeros(SubSeq(digits, 1, Len(digits) - 1))
    ELSE digits

DotIndex(chars) == CHOOSE i \in 1..Len(chars) : chars[i] = "."

RECURSIVE DecimalValue(_, _)
DecimalValue(digits, acc) ==
    IF digits = <<>> THEN acc
    ELSE DecimalValue(Tail(digits), acc * 10 + DigitValue(Head(digits)))

ParseF64(chars) ==
    LET dot  == DotIndex(chars)
        frac == StripZeros(SubSeq(chars, dot + 1, Len(chars)))
    IN [mant |-> DecimalValue(SubSeq(chars, 1, dot - 1) \o frac, 0),
        scale |-> Len(frac)]

\* convert_string_escape: the loop over src with its escaping flag
RECURSIVE EscapeLoop(_, _, _)
EscapeLoop(chars, dest, escaping) ==
    IF chars = <<>>
    THEN IF escaping THEN [ok |-> FALSE, err |-> "UnterminatedEscape", dest |-> dest]
         ELSE [ok |-> TRUE, err |-> "", dest |-> dest]
    ELSE LET ch == Head(chars)
         IN IF ~escaping
            THEN IF ch = "\\" THEN EscapeLoop(Tail(chars), dest, TRUE)
                 ELSE EscapeLoop(Tail(chars), Append(dest, ch), FALSE)
            ELSE IF ch = "n" THEN EscapeLoop(Tail(chars), Append(dest, "\n"), FALSE)
                 ELSE [ok |-> FALSE, err |-> "InvalidEscape", dest |-> dest]

\* variant: the body is returned as it stands
convert_string_escape_Raw(chars) == [ok |-> TRUE, err |-> "", dest |-> chars]

convert_string_escape(chars) == EscapeLoop(chars, <<>>, FALSE)

(***************************************************************************)
(* The source cursor: getc and ungetc on the Lexer's fields.               *)
(***************************************************************************)
Cursor ==
    [current_line |-> current_line, current_index |-> current_index,
     at_eol |-> at_eol, lines |-> lines]

\* variant: the index advances at the end of the line too
getc_Overrun(c) ==
    IF c.at_eol /\ c.lines = <<>>
    THEN [some |-> FALSE, ch |-> "", cur |-> c]
    ELSE LET l == IF c.at_eol
                  THEN [current_line |-> Head(c.lines), current_index |-> 0,
                        at_eol |-> FALSE, lines |-> Tail(c.lines)]
                  ELSE c
         IN IF l.current_index < Len(l.current_line)
            THEN [some |-> TRUE, ch |-> l.current_line[l.current_index + 1],
                  cur |-> [l EXCEPT !.current_index = @ + 1]]
            ELSE [some |-> TRUE, ch |-> "\n",
                  cur |-> [l EXCEPT !.at_eol = TRUE, !.current_index = @ + 1]]

\* getc: some = FALSE is None; cur is the cursor afterwards
getc(c) ==
    IF c.at_eol /\ c.lines = <<>>
    THEN [some |-> FALSE, ch |-> "", cur |-> c]
    ELSE LET l == IF c.at_eol
                  THEN [current_line |-> Head(c.lines), current_index |-> 0,
                        at_eol |-> FALSE, lines |-> Tail(c.lines)]
                  ELSE c
         IN IF l.current_index < Len(l.current_line)
            THEN [some |-> TRUE, ch |-> l.current_line[l.current_index + 1],
                  cur |-> [l EXCEPT !.current_index = @ + 1]]
            ELSE [some |-> TRUE, ch |-> "\n", cur |-> [l EXCEPT !.at_eol = TRUE]]

\* variant: the index steps back at the end of a line too
ungetc_Always(c) ==
    IF c.current_index > 0
    THEN [ok |-> TRUE, cur |-> [c EXCEPT !.current_index = @ - 1]]
    ELSE [ok |-> FALSE, cur |-> c]

\* variant: pushing back the end of a line clears at_eol, so that getc
\* delivers the '\n' once more
ungetc_ClearEol(c) ==
    IF c.current_index > 0
    THEN IF ~c.at_eol
         THEN [ok |-> TRUE, cur |-> [c EXCEPT !.current_index = @ - 1]]
         ELSE [ok |-> TRUE, cur |-> [c EXCEPT !.at_eol = FALSE]]
    ELSE [ok |-> FALSE, cur |-> c]

\* variant: the guard is off by one
ungetc_StrictGuard(c) ==
    IF c.current_index > 1
    THEN IF ~c.at_eol
         THEN [ok |-> TRUE, cur |-> [c EXCEPT !.current_index = @ - 1]]
         ELSE [ok |-> TRUE, cur |-> c]
    ELSE [ok |-> FALSE, cur |-> c]

\* ungetc: ok = FALSE is the "invalid ungetc()" panic
ungetc(c) ==
    IF c.current_index > 0
    THEN IF ~c.at_eol
         THEN [ok |-> TRUE, cur |-> [c EXCEPT !.current_index = @ - 1]]
         ELSE [ok |-> TRUE, cur |-> c]
    ELSE [ok |-> FALSE, cur |-> c]

\* position of the cursor in the file: <<lines taken, index, at_eol>>
Pos(c) == <<Len(src) - Len(c.lines), c.current_index, IF c.at_eol THEN 1 ELSE 0>>

(***************************************************************************)
(* The three ways one iteration of get_token's loop ends.  Every iteration *)
(* begins with the one getc of the loop head, which the history of the     *)
(* newlines delivered records.                                             *)
(***************************************************************************)
NewlineRead == IF getc(Cursor).some /\ getc(Cursor).ch = "\n" THEN 1 ELSE 0

\* the slice of the line buffer that became the token (a string with its quotes)
LexemeOf(c, token_type) ==
    IF token_type = EndOfFile THEN <<>>
    ELSE SubSeq(c.current_line,
                IF current_status = "String" THEN start_index ELSE start_index + 1,
                c.current_index)

SetCursor(c) ==
    /\ current_line' = c.current_line
    /\ current_index' = c.current_index
    /\ at_eol' = c.at_eol
    /\ lines' = c.lines

\* the match arm yields the next status and the loop goes round
Continue(c, status, start, line_number) ==
    /\ SetCursor(c)
    /\ current_status' = status
    /\ start_index' = start
    /\ current_line_number' = line_number
    /\ newlines_delivered' = newlines_delivered + NewlineRead
    /\ UNCHANGED <<src, pc, result, tokens, outcome, call_pos, calls_after_eof,
                   lexemes>>

\* break (or the return in the None arm): Token::new(token_type, current_line_number)
Return(c, token_type) ==
    /\ SetCursor(c)
    /\ result' = Token(token_type, current_line_number)
    /\ tokens' = Append(tokens, Token(token_type, current_line_number))
    /\ pc' = "idle"
    /\ newlines_delivered' = newlines_delivered + NewlineRead
    /\ lexemes' = lexemes \o LexemeOf(c, token_type)
    /\ UNCHANGED <<src, current_status, start_index, current_line_number,
                   outcome, call_pos, calls_after_eof>>

\* exit(1) or a panic: the process ends inside the call
Fatal(c, how) ==
    /\ SetCursor(c)
    /\ outcome' = how
    /\ pc' = "dead"
    /\ newlines_delivered' = newlines_delivered + NewlineRead
    /\ UNCHANGED <<src, current_status, start_index, current_line_number,
                   result, tokens, call_pos, calls_after_eof, lexemes>>

Scanning(status) ==
    /\ pc = "scanning"
    /\ current_status = status
    /\ getc(Cursor).some

(***************************************************************************)
(* get_token, one action per arm of the match on current_status; each      *)
(* action is one iteration of the loop, the getc at its top included.      *)
(***************************************************************************)
\* variant: every EndOfFile moves the line count on
EndOfInput_Counts ==
    /\ pc = "scanning"
    /\ ~getc(Cursor).some
    /\ SetCursor(getc(Cursor).cur)
    /\ result' = Token(EndOfFile, current_line_number)
    /\ tokens' = Append(tokens, Token(EndOfFile, current_line_number))
    /\ pc' = "idle"
    /\ current_line_number' = current_line_number + 1
    /\ UNCHANGED <<src, current_status, start_index, outcome, call_pos,
                   calls_after_eof, newlines_delivered, lexemes>>

\* the None arm: EndOfFile tagged with the current line number
EndOfInput ==
    /\ pc = "scanning"
    /\ ~getc(Cursor).some
    /\ Return(getc(Cursor).cur, EndOfFile)

\* variant: '\r' is not among the blanks
StepInitial_NoCR ==
    /\ Scanning("Initial")
    /\ LET g == getc(Cursor)
           ch == g.ch
           c == g.cur
       IN IF ch = "#" THEN Continue(c, "Comment", start_index, current_line_number)
          ELSE IF ch \in Digits
               THEN Continue(c, "IntPart", c.current_index - 1, current_line_number)
          ELSE IF ch \in Letters
               THEN Continue(c, "AlNum", c.current_index - 1, current_line_number)
          ELSE IF ch = "\""
               THEN Continue(c, "String", c.current_index, current_line_number)
          ELSE IF ch \in Blanks \ {"\r"}
               THEN Continue(c, "Initial", start_index,
                             IF ch = "\n" THEN current_line_number + 1
                             ELSE current_line_number)
          ELSE IF is_operator_start(ch)
               THEN Continue(c, "Operator", c.current_index - 1, current_line_number)
          ELSE Fatal(c, "IllegalCharacter")

\* variant: every blank is counted as the end of a line
StepInitial_CountBlanks ==
    /\ Scanning("Initial")
    /\ LET g == getc(Cursor)
           ch == g.ch
           c == g.cur
       IN IF ch = "#" THEN Continue(c, "Comment", start_index, current_line_number)
          ELSE IF ch \in Digits
               THEN Continue(c, "IntPart", c.current_index - 1, current_line_number)
          ELSE IF ch \in Letters
               THEN Continue(c, "AlNum", c.current_index - 1, current_line_number)
          ELSE IF ch = "\""
               THEN Continue(c, "String", c.current_index, current_line_number)
          ELSE IF ch \in Blanks
               THEN Continue(c, "Initial", start_index, current_line_number + 1)
          ELSE IF is_operator_start(ch)
               THEN Continue(c, "Operator", c.current_index - 1, current_line_number)
          ELSE Fatal(c, "IllegalCharacter")

StepInitial ==
    /\ Scanning("Initial")
    /\ LET g == getc(Cursor)
           ch == g.ch
           c == g.cur
       IN IF ch = "#" THEN Continue(c, "Comment", start_index, current_line_number)
          ELSE IF ch \in Digits
               THEN Continue(c, "IntPart", c.current_index - 1, current_line_number)
          ELSE IF ch \in Letters
               THEN Continue(c, "AlNum", c.current_index - 1, current_line_number)
          ELSE IF ch = "\""
               THEN Continue(c, "String", c.current_index, current_line_number)
          ELSE IF ch \in Blanks
               THEN Continue(c, "Initial", start_index,
                             IF ch = "\n" THEN current_line_number + 1
                             ELSE current_line_number)
          ELSE IF is_operator_start(ch)
               THEN Continue(c, "Operator", c.current_index - 1, current_line_number)
          ELSE Fatal(c, "IllegalCharacter")

\* variant: the newline that ends a comment is not counted
StepComment_NoCount ==
    /\ Scanning("Comment")
    /\ LET g == getc(Cursor)
       IN IF g.ch = "\n"
          THEN Continue(g.cur, "Initial", start_index, current_line_number)
          ELSE Continue(g.cur, "Comment", start_index, current_line_number)

\* variant: the comment goes on over the end of the line
StepComment_NoEnd ==
    /\ Scanning("Comment")
    /\ LET g == getc(Cursor)
       IN Continue(g.cur, "Comment", start_index,
                   IF g.ch = "\n" THEN current_line_number + 1
                   ELSE current_line_number)

StepComment ==
    /\ Scanning("Comment")
    /\ LET g == getc(Cursor)
       IN IF g.ch = "\n"
          THEN Continue(g.cur, "Initial", start_index, current_line_number + 1)
          ELSE Continue(g.cur, "Comment", start_index, current_line_number)

StepIntPart ==
    /\ Scanning("IntPart")
    /\ LET g == getc(Cursor)
       IN IF g.ch \in Digits
          THEN Continue(g.cur, "IntPart", start_index, current_line_number)
          ELSE IF g.ch = "."
          THEN Continue(g.cur, "DecimalPoint", start_index, current_line_number)
          ELSE LET u == ungetc(g.cur)
                   sl == Slice(u.cur.current_line, start_index, u.cur.current_index)
                   p == ParseI32(sl.chars)
               IN IF ~u.ok THEN Fatal(u.cur, "PanicUngetc")
                  ELSE IF ~sl.ok THEN Fatal(u.cur, "PanicSliceIndex")
                  ELSE IF ~p.ok THEN Fatal(u.cur, "PanicNotANumber")
                  ELSE Return(u.cur, IntValue(p.value))

\* variant: anything may follow the '.'
StepDecimalPoint_Lenient ==
    /\ Scanning("DecimalPoint")
    /\ Continue(getc(Cursor).cur, "AfterDecimalPoint", start_index, current_line_number)

StepDecimalPoint ==
    /\ Scanning("DecimalPoint")
    /\ LET g == getc(Cursor)
       IN IF g.ch \in Digits
          THEN Continue(g.cur, "AfterDecimalPoint", start_index, current_line_number)
          ELSE Fatal(g.cur, "MalformedNumber")

StepAfterDecimalPoint ==
    /\ Scanning("AfterDecimalPoint")
    /\ LET g == getc(Cursor)
       IN IF g.ch \in Digits
          THEN Continue(g.cur, "AfterDecimalPoint", start_index, current_line_number)
          ELSE LET u == ungetc(g.cur)
                   sl == Slice(u.cur.current_line, start_index, u.cur.current_index)
                   r == ParseF64(sl.chars)
               IN IF ~u.ok THEN Fatal(u.cur, "PanicUngetc")
                  ELSE IF ~sl.ok THEN Fatal(u.cur, "PanicSliceIndex")
                  ELSE Return(u.cur, RealValue(r.mant, r.scale))

StepAlNum ==
    /\ Scanning("AlNum")
    /\ LET g == getc(Cursor)
       IN IF g.ch \in Letters \cup Digits
          THEN Continue(g.cur, "AlNum", start_index, current_line_number)
          ELSE LET u == ungetc(g.cur)
                   sl == Slice(u.cur.current_line, start_index, u.cur.current_index)
                   k == is_keyword(sl.chars)
               IN IF ~u.ok THEN Fatal(u.cur, "PanicUngetc")
                  ELSE IF ~sl.ok THEN Fatal(u.cur, "PanicSliceIndex")
                  ELSE IF k.some THEN Return(u.cur, Plain(k.kind))
                  ELSE Return(u.cur, Identifier(sl.chars))

\* variant: the end of the line does not end the scan of a string
StepString_AcrossLines ==
    /\ Scanning("String")
    /\ LET g == getc(Cursor)
       IN IF g.ch = "\""
          THEN LET sl == Slice(g.cur.current_line, start_index, g.cur.current_index - 1)
                   e == convert_string_escape(sl.chars)
               IN IF ~sl.ok THEN Fatal(g.cur, "PanicSliceIndex")
                  ELSE IF ~e.ok THEN Fatal(g.cur, e.err)
                  ELSE Return(g.cur, StringValue(e.dest))
          ELSE Continue(g.cur, "String", start_index, current_line_number)

StepString ==
    /\ Scanning("String")
    /\ LET g == getc(Cursor)
       IN IF g.ch = "\""
          THEN LET sl == Slice(g.cur.current_line, start_index, g.cur.current_index - 1)
                   e == convert_string_escape(sl.chars)
               IN IF ~sl.ok THEN Fatal(g.cur, "PanicSliceIndex")
                  ELSE IF ~e.ok THEN Fatal(g.cur, e.err)
                  ELSE Return(g.cur, StringValue(e.dest))
          ELSE IF g.ch = "\n" THEN Fatal(g.cur, "NewlineInString")
          ELSE Continue(g.cur, "String", start_index, current_line_number)

StepOperator ==
    /\ Scanning("Operator")
    /\ LET g == getc(Cursor)
           s1 == Slice(g.cur.current_line, start_index, g.cur.current_index)
       IN IF ~s1.ok THEN Fatal(g.cur, "PanicSliceIndex")
          ELSE IF in_operator(s1.chars) /\ ~g.cur.at_eol
          THEN Continue(g.cur, "Operator", start_index, current_line_number)
          ELSE LET u == ungetc(g.cur)
                   s2 == Slice(u.cur.current_line, start_index, u.cur.current_index)
                   op == get_operator(s2.chars)
               IN IF ~u.ok THEN Fatal(u.cur, "PanicUngetc")
                  ELSE IF ~s2.ok THEN Fatal(u.cur, "PanicSliceIndex")
                  ELSE IF ~op.some THEN Fatal(u.cur, "PanicNotOperator")
                  ELSE Return(u.cur, Plain(op.kind))

(***************************************************************************)
(* The callers of get_token.                                               *)
(***************************************************************************)
MaxCallsAfterEof == 2

\* entry of get_token: fresh locals
GetTokenEntry ==
    /\ pc' = "scanning"
    /\ current_status' = "Initial"
    /\ start_index' = 0
    /\ call_pos' = Pos(Cursor)
    /\ UNCHANGED <<src, lines, current_line, current_index, at_eol,
                   current_line_number, result, tokens, outcome,
                   newlines_delivered, lexemes>>

\* compile: call get_token until the returned token is EndOfFile
CompileLoop ==
    /\ pc = "idle"
    /\ result.token_type # EndOfFile
    /\ GetTokenEntry
    /\ UNCHANGED calls_after_eof

\* get_token is public: a caller may call it again after EndOfFile
CallAfterEof ==
    /\ pc = "idle"
    /\ result.token_type = EndOfFile
    /\ calls_after_eof < MaxCallsAfterEof
    /\ GetTokenEntry
    /\ calls_after_eof' = calls_after_eof + 1

(***************************************************************************)
(* The inputs.  Each family takes its lines from a small alphabet that     *)
(* exercises one part of the scanner; Corpus holds longer fixed sources.   *)
(***************************************************************************)
OpMaxLen == 3
NumMaxLen == 4
KwMaxLen == 3
StrMaxLen == 5
LnMaxLen == 2
LnMaxLines == 2
WsMaxLen == 3
XMaxLen == 1

SeqsUpTo(S, n) == UNION {[1..k -> S] : k \in 0..n}

NonEmptySeqsUpTo(S, n) == UNION {[1..k -> S] : k \in 1..n}

OpAlphabet == {">", "<", "!", ":", "=", "&", "|", "+", "-", " ", "x"}

NumAlphabet == {"0", "1", "9", ".", "x", " "}

KwAlphabet == {"i", "f", "I", "_", "1", " ", ";"}

StrAlphabet == {"\"", "\\", "n", "a"}

LnAlphabet == {"x", " ", "#"}

WsAlphabet == {" ", "\t", "\r", "#", "@"}

XAlphabet == {">", "=", "+", "&"}

OpFiles == {<<l>> : l \in SeqsUpTo(OpAlphabet, OpMaxLen)}

NumFiles == {<<l>> : l \in SeqsUpTo(NumAlphabet, NumMaxLen)}

KwSuffixes == {<<>>, <<" ">>, <<";">>, <<"s">>, <<"1">>, <<"\"">>}

KwFiles ==
    {<<l>> : l \in SeqsUpTo(KwAlphabet, KwMaxLen)}
    \cup {<<KEYWORD_ARRAY[i][1] \o s>> : i \in 1..Len(KEYWORD_ARRAY), s \in KwSuffixes}

StrFiles == {<<l>> : l \in SeqsUpTo(StrAlphabet, StrMaxLen)}

LnFiles == NonEmptySeqsUpTo(SeqsUpTo(LnAlphabet, LnMaxLen), LnMaxLines)

\* one line each: BufRead::lines() strips "\r\n", so that only the last line
\* of a file can end in '\r'
WsFiles == {<<l>> : l \in SeqsUpTo(WsAlphabet, WsMaxLen)}

\* two lines: an operator character at the end of one line and at the
\* start of the next
XFiles ==
    {<<a, b>> : a \in SeqsUpTo(XAlphabet, XMaxLen), b \in SeqsUpTo(XAlphabet, XMaxLen)}

ExampleSource ==
    << <<"v","a","r"," ","x"," ",":","="," ","3"," ","+"," ","4",".","5",";",
         " ","#"," ","a","d","d">> >>

Corpus ==
    { ExampleSource,
      << <<"2","1","4","7","4","8","3","6","4","7">> >>,
      << <<"2","1","4","7","4","8","3","6","4","8">> >>,
      << <<"9","9","9","9","9","9","9","9","9","9","9">>, <<"1">> >>,
      << <<"0","0","0","0","0","0","0","0","0","0","1","2">> >>,
      << <<"\"","a","\\","n","b","\"">> >>,
      << <<"\"","a","b","c","\"">>, <<"\"","a","b","c">> >>,
      << <<"#"," ","\"","x"," ","@"," ","1",".">>, <<" ","\t">>, <<>>, <<"#","\\">> >>,
      << <<" ","\r","#","\"","@">>, <<"\t","#","#","\\","n">>, <<"\r">> >>,
      << <<"x"," ","=","1",";">>, <<"i","f","(","x",">","=","1",")">>, <<"y">> >> }

\* the inputs of the fair specification: every class of character, short lines
LvMaxLen == 3

LvMaxLines == 2

LvAlphabet == {"1", ".", "x", "\"", "#", ">", " "}

LiveFiles ==
    {<<l>> : l \in SeqsUpTo(LvAlphabet, LvMaxLen)}
    \cup NonEmptySeqsUpTo(SeqsUpTo(LvAlphabet, 1), LvMaxLines)
    \cup Corpus

InputFiles ==
    OpFiles \cup NumFiles \cup KwFiles \cup StrFiles \cup LnFiles
            \cup WsFiles \cup XFiles \cup Corpus

(***************************************************************************)
(* Lexer::new: the first line is read eagerly.                             *)
(***************************************************************************)
InitWith(files) ==
    /\ src \in files
    /\ lines = Tail(src)
    /\ current_line = Head(src)
    /\ current_index = 0
    /\ at_eol = FALSE
    /\ current_line_number = 1
    /\ pc = "idle"
    /\ current_status = "Initial"
    /\ start_index = 0
    /\ result = NoToken
    /\ tokens = <<>>
    /\ outcome = "running"
    /\ call_pos = <<1, 0, 0>>
    /\ calls_after_eof = 0
    /\ newlines_delivered = 0
    /\ lexemes = <<>>

Init == InitWith(InputFiles)

LiveInit == InitWith(LiveFiles)

Next ==
    \/ CompileLoop
    \/ CallAfterEof
    \/ EndOfInput
    \/ StepInitial
    \/ StepComment
    \/ StepIntPart
    \/ StepDecimalPoint
    \/ StepAfterDecimalPoint
    \/ StepAlNum
    \/ StepString
    \/ StepOperator

Spec == Init /\ [][Next]_vars

\* the program runs to completion: compile's loop and get_token's loop
\* are never suspended
Run ==
    \/ CompileLoop
    \/ EndOfInput
    \/ StepInitial
    \/ StepComment
    \/ StepIntPart
    \/ StepDecimalPoint
    \/ StepAfterDecimalPoint
    \/ StepAlNum
    \/ StepString
    \/ StepOperator

FairSpec == LiveInit /\ [][Next]_vars /\ WF_vars(Run)

TypeOK ==
    /\ pc \in {"idle", "scanning", "dead"}
    /\ current_status \in {"Initial", "Comment", "IntPart", "DecimalPoint",
                           "AfterDecimalPoint", "AlNum", "String", "Operator"}
    /\ outcome \in {"running"} \cup LexicalErrors \cup Panics
    /\ (pc = "dead") <=> (outcome # "running")
    /\ current_index \in 0..Len(current_line)

(***************************************************************************)
(* Vocabulary of the properties.                                           *)
(***************************************************************************)
\* the last call returned a token and no new call has begun
Returned == pc = "idle" /\ result # NoToken

\* Returned, from the arm of the given status
ReturnedFrom(status) == Returned /\ current_status = status

\* the process ended inside the arm of the given status
DiedIn(status) == pc = "dead" /\ current_status = status

\* the physical line (1-based) the cursor holds
PhysicalLine == Len(src) - Len(lines)

\* the lexeme of the token just returned, as a slice of the line buffer
Lexeme == SubSeq(current_line, start_index + 1, current_index)

\* the maximal run of characters of class S in line from 1-based index i
RECURSIVE RunFrom(_, _, _)
RunFrom(line, i, S) ==
    IF i <= Len(line) /\ line[i] \in S
    THEN <<line[i]>> \o RunFrom(line, i + 1, S)
    ELSE <<>>

KindOfToken(i) == tokens[i].token_type.kind

(***************************************************************************)
(* C1 - Line attribution: every token returned by get_token that lies on   *)
(* physical line N+1 carries line_number N+1, and EndOfFile after an       *)
(* N-line input carries N+1, whatever the preceding lines end with.        *)
(***************************************************************************)
C1_LineAttribution ==
    Returned =>
        IF result.token_type = EndOfFile
        THEN result.line_number = Len(src) + 1
        ELSE result.line_number = PhysicalLine

(***************************************************************************)
(* C2 - Operator longest-match: two adjacent characters that spell a       *)
(* two-character operator give the one two-character token, whatever       *)
(* follows; the same two characters separated by a space give the two      *)
(* one-character tokens.                                                   *)
(***************************************************************************)
TwoCharSpellings ==
    {<<">", "=">>, <<"<", "=">>, <<"!", "=">>, <<":", "=">>,
     <<"&", "&">>, <<"|", "|">>, <<"+", "+">>, <<"-", "-">>}

TwoCharKind(sp) ==
    CASE sp = <<">", "=">> -> "GreaterEqual"
      [] sp = <<"<", "=">> -> "LessEqual"
      [] sp = <<"!", "=">> -> "NotEqual"
      [] sp = <<":", "=">> -> "Assignment"
      [] sp = <<"&", "&">> -> "LogicalAnd"
      [] sp = <<"|", "|">> -> "LogicalOr"
      [] sp = <<"+", "+">> -> "Increment"
      [] sp = <<"-", "-">> -> "Decrement"

OneCharKind(ch) ==
    CASE ch = ">" -> "GreaterThan"
      [] ch = "<" -> "LessThan"
      [] ch = "=" -> "Equal"
      [] ch = "+" -> "Plus"
      [] ch = "-" -> "Minus"
      [] OTHER -> "NoSuchToken"

\* the operator scan that began at start_index found the pair adjacent
AdjacentPair ==
    /\ start_index + 2 <= Len(current_line)
    /\ SubSeq(current_line, start_index + 1, start_index + 2) \in TwoCharSpellings

\* the line begins with the two characters of a pair, a space between
\* them, and nothing after them that could extend the second
SpacedPair(line) ==
    /\ Len(line) >= 3
    /\ line[2] = " "
    /\ <<line[1], line[3]>> \in TwoCharSpellings
    /\ Len(line) >= 4 => line[4] \in {" ", "x"}

C2_Adjacent ==
    /\ DiedIn("Operator") => ~AdjacentPair
    /\ ReturnedFrom("Operator") /\ AdjacentPair =>
          /\ result.token_type =
                Plain(TwoCharKind(SubSeq(current_line, start_index + 1, start_index + 2)))
          /\ current_index = start_index + 2

C2_Spaced ==
    SpacedPair(src[1]) =>
        /\ Len(tokens) < 2 => outcome = "running"
        /\ Len(tokens) >= 1 => KindOfToken(1) = OneCharKind(src[1][1])
        /\ Len(tokens) >= 2 => KindOfToken(2) = OneCharKind(src[1][3])

C2_OperatorLongestMatch == C2_Adjacent /\ C2_Spaced

(***************************************************************************)
(* C10 - End-to-end example: the one-line source                           *)
(* 'var x := 3 + 4.5; # add' yields Var, Identifier("x"), Assignment,      *)
(* IntValue(3), Plus, RealValue(4.5), Semicolon, each with line 1, then    *)
(* EndOfFile with line 2.                                                  *)
(***************************************************************************)
ExampleTokens ==
    << Token(Plain("Var"), 1), Token(Identifier(<<"x">>), 1),
       Token(Plain("Assignment"), 1), Token(IntValue(3), 1),
       Token(Plain("Plus"), 1), Token(RealValue(45, 1), 1),
       Token(Plain("Semicolon"), 1), Token(EndOfFile, 2) >>

C10_EndToEndExample ==
    src = ExampleSource =>
        /\ outcome = "running"
        /\ \A i \in 1..Len(tokens) :
              tokens[i] = IF i <= 8 THEN ExampleTokens[i] ELSE Token(EndOfFile, 2)

C10_Witness ==
    /\ src = ExampleSource
    /\ Len(tokens) = 8
    /\ result.token_type = EndOfFile

(***************************************************************************)
(* C3 - Keyword versus identifier: a maximal lexeme of the shape           *)
(* [A-Za-z_][A-Za-z0-9_]* that is exactly one of the 13 keyword spellings  *)
(* gives that keyword's kind, never Identifier; any other gives            *)
(* Identifier with exactly the lexeme text; whatever ends the lexeme.      *)
(***************************************************************************)
KeywordSpellings == {KEYWORD_ARRAY[i][1] : i \in 1..Len(KEYWORD_ARRAY)}

KindOfKeyword(sp) ==
    KEYWORD_ARRAY[CHOOSE i \in 1..Len(KEYWORD_ARRAY) : KEYWORD_ARRAY[i][1] = sp][2]

\* the maximal identifier-shaped lexeme that begins at start_index
WordAtStart == RunFrom(current_line, start_index + 1, Letters \cup Digits)

C3_KeywordVersusIdentifier ==
    /\ ~DiedIn("AlNum")
    /\ ReturnedFrom("AlNum") =>
          /\ current_line[start_index + 1] \in Letters
          /\ Lexeme = WordAtStart
          /\ result.token_type =
                IF WordAtStart \in KeywordSpellings
                THEN Plain(KindOfKeyword(WordAtStart))
                ELSE Identifier(WordAtStart)

\* a keyword ended by an operator character
C3_Witness ==
    /\ ReturnedFrom("AlNum")
    /\ result.token_type = Plain("If")
    /\ current_index < Len(current_line)
    /\ current_line[current_index + 1] = ";"

(***************************************************************************)
(* C4 - Integer literals: every non-empty digit sequence not followed by   *)
(* '.' gives one IntValue whose value is the decimal value of the digits,  *)
(* leading zeros and values above 2^31-1 included.                         *)
(***************************************************************************)
DigitsAtStart == RunFrom(current_line, start_index + 1, Digits)

\* 1-based index of the character after the digits that begin at start_index
AfterDigits == start_index + Len(DigitsAtStart) + 1

FollowedByDot ==
    /\ AfterDigits <= Len(current_line)
    /\ current_line[AfterDigits] = "."

C4_IntegerLiterals ==
    (pc \in {"idle", "dead"} /\ current_status = "IntPart") =>
        /\ pc = "idle"
        /\ ~FollowedByDot
        /\ Lexeme = DigitsAtStart
        /\ result.token_type = IntValue(DecimalValue(DigitsAtStart, 0))

(***************************************************************************)
(* C5 - Malformed number: digits followed by '.' and then by anything but  *)
(* a digit (the end of the line included) end in the fatal lexical error   *)
(* and give no IntValue or RealValue; digits '.' digits give one RealValue *)
(* covering the whole span.                                                *)
(***************************************************************************)
FractionAtStart == RunFrom(current_line, AfterDigits + 1, Digits)

InNumber == current_status \in {"IntPart", "DecimalPoint", "AfterDecimalPoint"}

RECURSIVE Pow10(_)
Pow10(n) == IF n = 0 THEN 1 ELSE 10 * Pow10(n - 1)

C5_MalformedNumber ==
    (InNumber /\ FollowedByDot) =>
        IF FractionAtStart = <<>>
        THEN /\ pc # "idle"
             /\ pc = "dead" => outcome = "MalformedNumber"
        ELSE /\ pc # "dead"
             /\ pc = "idle" =>
                  /\ result.token_type.kind = "RealValue"
                  /\ current_index = AfterDigits + Len(FractionAtStart)
                  /\ result.token_type.num * Pow10(Len(FractionAtStart))
                        = DecimalValue(DigitsAtStart \o FractionAtStart, 0)
                            * Pow10(result.token_type.scale)

\* the '.' is the last character of the line
C5_Witness ==
    /\ DiedIn("DecimalPoint")
    /\ outcome = "MalformedNumber"
    /\ FollowedByDot
    /\ AfterDigits = Len(current_line)

(***************************************************************************)
(* C6 - An input whose lines hold only spaces, tabs, carriage returns and  *)
(* '#' comments (of any content) gives EndOfFile on the first call and on  *)
(* every later call: no other token and no lexical error.                  *)
(***************************************************************************)
BlankLine(line) ==
    LET ws == RunFrom(line, 1, {" ", "\t", "\r"})
    IN Len(ws) = Len(line) \/ line[Len(ws) + 1] = "#"

BlankInput == \A i \in 1..Len(src) : BlankLine(src[i])

C6_BlankInputOnlyEndOfFile ==
    BlankInput =>
        /\ outcome = "running"
        /\ \A i \in 1..Len(tokens) : tokens[i].token_type = EndOfFile

\* a comment holding an illegal character, and two calls answered
C6_Witness ==
    /\ BlankInput
    /\ \E i \in 1..Len(src) : \E j \in 1..Len(src[i]) : src[i][j] = "@"
    /\ Len(tokens) >= 2
    /\ Returned

(***************************************************************************)
(* C7 - String literals: a literal closed on the same line gives one       *)
(* StringValue whose text is the body between the quotes with every        *)
(* backslash-'n' pair replaced by one newline and every other character    *)
(* copied in order; a body without backslashes is returned unchanged.      *)
(* (The bodies that hold any other escape are the subject of C8.)          *)
(***************************************************************************)
\* 1-based index of the first quote after the opening one, 0 if none
ClosingQuote ==
    IF \E q \in (start_index + 1)..Len(current_line) : current_line[q] = "\""
    THEN CHOOSE q \in (start_index + 1)..Len(current_line) :
            /\ current_line[q] = "\""
            /\ \A k \in (start_index + 1)..(q - 1) : current_line[k] # "\""
    ELSE 0

Body == SubSeq(current_line, start_index + 1, ClosingQuote - 1)

\* every backslash of the body is followed by 'n'
OnlyNewlineEscapes(body) ==
    \A i \in 1..Len(body) :
        body[i] = "\\" => (i < Len(body) /\ body[i + 1] = "n")

\* position by position: drop a backslash, turn the 'n' after one into a newline
RECURSIVE DecodedFrom(_, _)
DecodedFrom(body, i) ==
    IF i > Len(body) THEN <<>>
    ELSE IF body[i] = "\\" THEN DecodedFrom(body, i + 1)
    ELSE IF i > 1 /\ body[i - 1] = "\\" THEN <<"\n">> \o DecodedFrom(body, i + 1)
    ELSE <<body[i]>> \o DecodedFrom(body, i + 1)

C7_StringLiterals ==
    (pc \in {"idle", "dead"} /\ current_status = "String"
        /\ ClosingQuote # 0 /\ OnlyNewlineEscapes(Body)) =>
        /\ pc = "idle"
        /\ current_index = ClosingQuote
        /\ result.token_type = StringValue(DecodedFrom(Body, 1))
        /\ (\A i \in 1..Len(Body) : Body[i] # "\\") => result.token_type.text = Body

\* a body with text on both sides of an escape
C7_Witness ==
    /\ ReturnedFrom("String")
    /\ Len(Body) >= 3
    /\ \E i \in 2..(Len(Body) - 1) : Body[i] = "\\"
    /\ Len(result.token_type.text) = Len(Body) - 1

(***************************************************************************)
(* C8 - String errors: get_token ends in the fatal lexical error and       *)
(* returns no StringValue when the line ends before a closing quote, when  *)
(* a backslash of the body is followed by anything but 'n', and when the   *)
(* body ends with a lone backslash (backslash-quote included).             *)
(***************************************************************************)
C8_StringErrors ==
    (current_status = "String"
        /\ (ClosingQuote = 0 \/ ~OnlyNewlineEscapes(Body))) =>
        /\ pc # "idle"
        /\ pc = "dead" =>
              outcome = IF ClosingQuote = 0 THEN "NewlineInString"
                        ELSE IF \E i \in 1..(Len(Body) - 1) :
                                   Body[i] = "\\" /\ Body[i + 1] # "n"
                             THEN "InvalidEscape"
                             ELSE "UnterminatedEscape"

\* the body is a lone backslash: the input backslash-quote
C8_Witness ==
    /\ DiedIn("String")
    /\ ClosingQuote # 0
    /\ Body = <<"\\">>
    /\ outcome \in LexicalErrors

(***************************************************************************)
(* C9 - Termination and progress: every call of get_token ends (with a     *)
(* token or with the process's end); a call that returns a token other     *)
(* than EndOfFile has consumed at least one source character that no       *)
(* earlier call turned into a token; so the loop of compile reaches        *)
(* EndOfFile or a fatal end after finitely many calls.                     *)
(***************************************************************************)
\* <<line, index>> positions in file order
PosBefore(a, b) == a[1] < b[1] \/ (a[1] = b[1] /\ a[2] < b[2])

PosAtMost(a, b) == a = b \/ PosBefore(a, b)

\* where the lexeme of the token just returned begins and ends
LexemeBegin ==
    <<PhysicalLine, IF current_status = "String" THEN start_index - 1 ELSE start_index>>

LexemeEnd == <<PhysicalLine, current_index>>

C9_Progress ==
    (Returned /\ result.token_type # EndOfFile) =>
        /\ PosAtMost(<<call_pos[1], call_pos[2]>>, LexemeBegin)
        /\ PosBefore(LexemeBegin, LexemeEnd)

C9_TerminationAndProgress ==
    /\ []C9_Progress
    /\ [](pc = "scanning" => <>(pc # "scanning"))
    /\ <>(pc = "dead" \/ (pc = "idle" /\ result.token_type = EndOfFile))

\* a token that ends at the end of its line, in a call that began on an
\* earlier line
C9_Witness ==
    /\ Returned
    /\ result.token_type # EndOfFile
    /\ at_eol
    /\ call_pos[1] < PhysicalLine

(***************************************************************************)
(* C11 - Pushback round-trip: in every reachable cursor state, when getc   *)
(* returns a character c and ungetc is then called once, the next getc     *)
(* returns the same c; the synthetic end-of-line '\n' included.            *)
(***************************************************************************)
C11_PushbackRoundTrip ==
    LET first == getc(Cursor)
        back == ungetc(first.cur)
        again == getc(back.cur)
    IN first.some =>
          /\ back.ok
          /\ again.some
          /\ again.ch = first.ch

(***************************************************************************)
(* C12 - Operator lookup never fails: whenever the scanner has entered the *)
(* Operator state, the lexeme finally looked up by exact match is a        *)
(* spelling of the operator table, so that get_operator never reaches its  *)
(* "not operator" failure; '!', ':', '&' and '|' followed by a character   *)
(* that completes no two-character operator included.                      *)
(***************************************************************************)
OperatorSpellings == {OPERATOR_ARRAY[i][1] : i \in 1..Len(OPERATOR_ARRAY)}

C12_OperatorLookupNeverFails ==
    /\ outcome # "PanicNotOperator"
    /\ ~DiedIn("Operator")
    /\ ReturnedFrom("Operator") => Lexeme \in OperatorSpellings

(***************************************************************************)
(* C13 - Synthetic newline: the cursor returns the synthetic '\n' exactly  *)
(* once for each physical line (empty lines included), after the line's    *)
(* last character; it loads the next line only on the getc after it; it    *)
(* returns None on that call and on every later one once the lines are     *)
(* exhausted, and never before the last line's '\n' has been returned.     *)
(***************************************************************************)
EndOfFileReturned == \E i \in 1..Len(tokens) : tokens[i].token_type = EndOfFile

C13_SyntheticNewline ==
    /\ newlines_delivered = (PhysicalLine - 1) + (IF at_eol THEN 1 ELSE 0)
    /\ at_eol => current_index = Len(current_line)
    /\ ~getc(Cursor).some => newlines_delivered = Len(src)
    /\ EndOfFileReturned => ~getc(Cursor).some

\* a line that ends in a token, then an empty line; both read
C13_Witness ==
    /\ Len(src) = 2
    /\ src[1] # <<>>
    /\ src[1][Len(src[1])] \in Letters
    /\ src[2] = <<>>
    /\ EndOfFileReturned
    /\ newlines_delivered = 2

(***************************************************************************)
(* C14 - Index invariant: before and after every getc, ungetc and          *)
(* get_token, 0 <= current_index <= length of current_line; every lexeme   *)
(* slice get_token takes (start_index..current_index, or                   *)
(* start_index..current_index-1 for a string) has                          *)
(* 0 <= start <= end <= length of the same line buffer: no slice is out    *)
(* of bounds and none spans two lines.                                     *)
(***************************************************************************)
TokenStatuses ==
    {"IntPart", "DecimalPoint", "AfterDecimalPoint", "AlNum", "String", "Operator"}

InBounds(c) == 0 <= c.current_index /\ c.current_index <= Len(c.current_line)

\* the end of the slice the arm of the status in force takes
SliceEnd == IF current_status = "String" THEN current_index - 1 ELSE current_index

C14_IndexInvariant ==
    /\ InBounds(Cursor)
    /\ InBounds(getc(Cursor).cur)
    /\ InBounds(ungetc(getc(Cursor).cur).cur)
    /\ outcome # "PanicSliceIndex"
    \* while a lexeme is being read the buffer is the line it began on
    /\ (pc = "scanning" /\ current_status \in TokenStatuses) =>
          /\ ~at_eol
          /\ 0 <= start_index
          /\ start_index <= current_index
    \* the slice of the token just returned
    /\ (Returned /\ current_status \in TokenStatuses) =>
          /\ 0 <= start_index
          /\ start_index <= SliceEnd
          /\ SliceEnd <= Len(current_line)

\* an empty string literal at the end of a line: the slice is empty
C14_Witness ==
    /\ ReturnedFrom("String")
    /\ start_index = SliceEnd
    /\ current_index = Len(current_line)

(***************************************************************************)
(* C15 - Pushback is never fatal through the scanner: every ungetc call    *)
(* get_token makes happens with current_index > 0, so that the             *)
(* "invalid ungetc()" panic is unreachable; ungetc is never called twice   *)
(* without a getc in between.                                              *)
(***************************************************************************)
\* the arms that call ungetc on the character that ends their lexeme
PushbackStatuses == {"IntPart", "AfterDecimalPoint", "AlNum", "Operator"}

C15_PushbackNeverFatal ==
    /\ outcome # "PanicUngetc"
    \* the cursor ungetc would be called on, after the getc of the loop head
    /\ (pc = "scanning" /\ current_status \in PushbackStatuses /\ getc(Cursor).some) =>
          /\ getc(Cursor).cur.current_index > 0
          /\ ungetc(getc(Cursor).cur).ok
    \* the one pushback of a call takes back only what that call has read:
    \* the cursor is never left before the position where the call began
    /\ (pc \in {"idle", "dead"} /\ current_status \in PushbackStatuses) =>
          PosAtMost(<<call_pos[1], call_pos[2]>>, <<PhysicalLine, current_index>>)

\* a one-character lexeme at the start of a line, pushed back at its end
C15_Witness ==
    /\ Returned
    /\ current_status \in PushbackStatuses
    /\ start_index = 0
    /\ current_index = 1
    /\ at_eol

(***************************************************************************)
(* C16 - No double-counting of lines: current_line_number never decreases, *)
(* changes only by +1 and is at most 1 + the number of synthetic newlines  *)
(* the cursor has returned; pushing back the delimiter that ended a token  *)
(* never makes one line boundary count twice, and no token carries a line  *)
(* number greater than the physical line it lies on.                       *)
(***************************************************************************)
C16_AtMostTheLine ==
    /\ current_line_number >= 1
    /\ current_line_number <= 1 + newlines_delivered
    /\ (Returned /\ result.token_type # EndOfFile) =>
          result.line_number <= PhysicalLine
    /\ (Returned /\ result.token_type = EndOfFile) =>
          result.line_number <= Len(src) + 1

C16_NoDoubleCounting ==
    /\ []C16_AtMostTheLine
    /\ [][current_line_number' \in {current_line_number, current_line_number + 1}]_vars

\* a token of the second line, returned after the delimiter that ended the
\* last token of the first line was pushed back
C16_Witness ==
    /\ Len(src) >= 2
    /\ src[1] # <<>>
    /\ src[1][Len(src[1])] \in Letters
    /\ Returned
    /\ result.token_type # EndOfFile
    /\ PhysicalLine = 2

(***************************************************************************)
(* C17 - Operators never join across a line boundary: when the first       *)
(* character of a two-character operator is the last character of a line   *)
(* and the second is the first character of the next line, get_token       *)
(* returns the one-character operator for the first line and a separate    *)
(* token for the next; in the Operator state the scanner never goes on     *)
(* matching after the synthetic end-of-line has been read.                 *)
(***************************************************************************)
\* the operator scan in force began at the last character of its line, and
\* the next line begins with the character that would complete a pair
PairAcrossLines ==
    /\ current_status = "Operator"
    /\ current_line # <<>>
    /\ start_index = Len(current_line) - 1
    /\ lines # <<>>
    /\ Head(lines) # <<>>
    /\ <<current_line[Len(current_line)], Head(lines)[1]>> \in TwoCharSpellings

C17_NeverContinuesAfterEol ==
    (pc = "scanning" /\ current_status = "Operator") => ~at_eol

C17_OneCharacterOperator ==
    (pc \in {"idle", "dead"} /\ PairAcrossLines) =>
        /\ pc = "idle"
        /\ result.token_type = Plain(OneCharKind(current_line[Len(current_line)]))
        /\ current_index = Len(current_line)

C17_NoJoinAcrossLines == C17_NeverContinuesAfterEol /\ C17_OneCharacterOperator

(***************************************************************************)
(* C18 - End-of-input is only ever seen between tokens: whenever getc      *)
(* returns None the scanner state is Initial, so end-of-input never occurs *)
(* in Comment, IntPart, DecimalPoint, AfterDecimalPoint, AlNum, String or  *)
(* Operator, and no partial lexeme is discarded when EndOfFile is emitted: *)
(* all that the call which returns EndOfFile has read is blanks and        *)
(* comments.                                                               *)
(***************************************************************************)
InProgressStatuses ==
    {"Comment", "IntPart", "DecimalPoint", "AfterDecimalPoint", "AlNum",
     "String", "Operator"}

\* what the running call had before it when it began
RestOfCallLine ==
    SubSeq(src[call_pos[1]], call_pos[2] + 1, Len(src[call_pos[1]]))

C18_EndOfInputOnlyInInitial ==
    /\ (pc = "scanning" /\ ~getc(Cursor).some) => current_status = "Initial"
    /\ (pc = "scanning" /\ current_status \in InProgressStatuses) => ~at_eol
    /\ (Returned /\ result.token_type = EndOfFile) =>
          /\ current_status = "Initial"
          /\ BlankLine(RestOfCallLine)
          /\ \A k \in (call_pos[1] + 1)..Len(src) : BlankLine(src[k])

\* EndOfFile returned by a call that began on an earlier line, after a token
C18_Witness ==
    /\ Returned
    /\ result.token_type = EndOfFile
    /\ calls_after_eof = 0
    /\ Len(tokens) >= 2
    /\ call_pos[1] < Len(src)
    /\ \E j \in 1..Len(src[Len(src)]) : src[Len(src)][j] = "#"

(***************************************************************************)
(* C19 - EndOfFile is absorbing: once get_token has returned EndOfFile,    *)
(* every later call returns EndOfFile with the same line_number and leaves *)
(* current_line, current_index, at_eol and current_line_number unchanged.  *)
(***************************************************************************)
C19_EndOfFileAbsorbing ==
    [][EndOfFileReturned =>
          /\ current_line' = current_line
          /\ current_index' = current_index
          /\ at_eol' = at_eol
          /\ current_line_number' = current_line_number
          /\ pc' # "dead"
          /\ pc' = "idle" => /\ result'.token_type = EndOfFile
                             /\ result'.line_number = tokens[Len(tokens)].line_number
                             /\ tokens[Len(tokens)].token_type = EndOfFile]_vars

\* two further calls answered after the EndOfFile of a file with a token
C19_Witness ==
    /\ Returned
    /\ calls_after_eof = 2
    /\ Len(tokens) >= 4
    /\ tokens[1].token_type # EndOfFile
    /\ \A i \in (Len(tokens) - 2)..Len(tokens) :
          /\ tokens[i].token_type = EndOfFile
          /\ tokens[i].line_number = result.line_number

(***************************************************************************)
(* C20 - No character is lost or read twice into tokens: for every input   *)
(* scanned to EndOfFile without a fatal error, the lexemes of the returned *)
(* tokens in order (strings with their two quotes) are exactly the source  *)
(* characters that are not whitespace and not part of a comment, in source *)
(* order; the character that ends a number, identifier or operator and is  *)
(* pushed back is the first character the next get_token call examines;    *)
(* and start_index computed in one call never affects a later call.        *)
(***************************************************************************)
\* the characters of a line from 1-based index i on that belong to tokens:
\* blanks outside strings are dropped, '#' outside a string drops the rest
RECURSIVE StripLine(_, _, _)
StripLine(line, i, in_string) ==
    IF i > Len(line) THEN <<>>
    ELSE IF in_string
         THEN <<line[i]>> \o StripLine(line, i + 1, line[i] # "\"")
    ELSE IF line[i] = "#" THEN <<>>
    ELSE IF line[i] \in {" ", "\t", "\r"} THEN StripLine(line, i + 1, FALSE)
    ELSE <<line[i]>> \o StripLine(line, i + 1, line[i] = "\"")

RECURSIVE StripFrom(_)
StripFrom(k) ==
    IF k > Len(src) THEN <<>> ELSE StripLine(src[k], 1, FALSE) \o StripFrom(k + 1)

C20_LexemesAreTheSource ==
    (EndOfFileReturned /\ outcome = "running") => lexemes = StripFrom(1)

\* the character after the lexeme just returned: the next one of the line,
\* or the newline that getc supplies at the end of the line
Delimiter ==
    IF current_index < Len(current_line) THEN current_line[current_index + 1]
    ELSE "\n"

C20_DelimiterExaminedNext ==
    (Returned /\ current_status \in PushbackStatuses) =>
        /\ getc(Cursor).some
        /\ getc(Cursor).ch = Delimiter

C20_StartIndexLocal ==
    (pc = "scanning" /\ current_status \in {"Initial", "Comment"}) => start_index = 0

C20_NoCharacterLostOrReadTwice ==
    /\ C20_LexemesAreTheSource
    /\ C20_DelimiterExaminedNext
    /\ C20_StartIndexLocal
====
